---- MODULE Spec2Model ----
(***************************************************************************)
(* The in-memory user store of src/src/index.ts (lines 1-479) and its      *)
(* HTTP handlers GET/POST/PUT/DELETE on /users, as a state machine.        *)
(*                                                                         *)
(* A stored user is a function from field names to plain values (a JS      *)
(* object); a request body is a function from keys to tagged JSON values.  *)
(* Array indexes are 1-based here: index 0 stands for JavaScript's -1.     *)
(***************************************************************************)
EXTENDS Integers, Sequences, FiniteSets, TLC

VARIABLES
    users,      \* the module-level array `users`
    now,        \* the wall clock read by `new Date()`
    req,        \* the request handled by the last step
    resp,       \* the response it got
    pending,    \* PUT handlers suspended at `await c.req.json()`
    writes,     \* number of requests that changed the store so far
    assigned    \* history: the greatest id a record was ever created with

vars == <<users, now, req, resp, pending, writes, assigned>>

----------------------------------------------------------------------------
(* Bounds of the model *)

\* requests that change the store, per behaviour
MaxWrites == 3
\* PUT handlers suspended at the same time
MaxSuspended == 1

----------------------------------------------------------------------------
(* JSON values of a request body *)

JStr(s) == [type |-> "string", str |-> s]
JNum(n, d) == [type |-> "number", num |-> n, den |-> d]
JInt(n) == JNum(n, 1)
JBool(b) == [type |-> "boolean", bool |-> b]
JNull == [type |-> "null"]

\* the JavaScript value a validated JSON value is stored as
Plain(v) ==
    CASE v.type = "string" -> v.str
      [] v.type = "number" -> v.num \div v.den
      [] v.type = "boolean" -> v.bool

\* {...a, ...b}: the keys of b win
Spread(a, b) ==
    [k \in (DOMAIN a) \cup (DOMAIN b) |-> IF k \in DOMAIN b THEN b[k] ELSE a[k]]

----------------------------------------------------------------------------
(* Validation schemas (zod) *)

NameMin == 2
NameMax == 50
AgeMin == 1
AgeMax == 150
CityMin == 2

Issue(f, m) == [field |-> f, message |-> m]

\* z.string().email(): the addresses of the model that zod's pattern accepts
WellFormedEmails ==
    {"alice@example.com", "bob@example.com", "charlie@example.com",
     "dave@example.com"}

IsEmail(s) == s \in WellFormedEmails

\* z.string().min(2, ...).max(50, ...)
NameIssues(v, minMsg, maxMsg) ==
    IF v.type # "string" THEN <<Issue("name", "invalid_type")>>
    ELSE (IF Len(v.str) < NameMin THEN <<Issue("name", minMsg)>> ELSE <<>>)
         \o (IF Len(v.str) > NameMax THEN <<Issue("name", maxMsg)>> ELSE <<>>)

\* z.string().email(...)
EmailIssues(v, msg) ==
    IF v.type # "string" THEN <<Issue("email", "invalid_type")>>
    ELSE IF ~IsEmail(v.str) THEN <<Issue("email", msg)>> ELSE <<>>

\* as AgeIssues, with the lower limits one too low
AgeIssuesNonNegative(v, posMsg) ==
    IF v.type # "number" THEN <<Issue("age", "invalid_type")>>
    ELSE (IF v.num % v.den # 0 THEN <<Issue("age", "not_integer")>> ELSE <<>>)
         \o (IF v.num < 0 THEN <<Issue("age", posMsg)>> ELSE <<>>)
         \o (IF v.num < (AgeMin - 1) * v.den THEN <<Issue("age", "too_small")>>
             ELSE <<>>)
         \o (IF v.num > AgeMax * v.den THEN <<Issue("age", "too_big")>> ELSE <<>>)

\* z.number().int().positive(...).min(1).max(150)
AgeIssues(v, posMsg) ==
    IF v.type # "number" THEN <<Issue("age", "invalid_type")>>
    ELSE (IF v.num % v.den # 0 THEN <<Issue("age", "not_integer")>> ELSE <<>>)
         \o (IF v.num <= 0 THEN <<Issue("age", posMsg)>> ELSE <<>>)
         \o (IF v.num < AgeMin * v.den THEN <<Issue("age", "too_small")>> ELSE <<>>)
         \o (IF v.num > AgeMax * v.den THEN <<Issue("age", "too_big")>> ELSE <<>>)

\* z.string().min(2, ...)
CityIssues(v, msg) ==
    IF v.type # "string" THEN <<Issue("city", "invalid_type")>>
    ELSE IF Len(v.str) < CityMin THEN <<Issue("city", msg)>> ELSE <<>>

\* z.boolean()
IsActiveIssues(v) ==
    IF v.type # "boolean" THEN <<Issue("isActive", "invalid_type")>> ELSE <<>>

SchemaKeys == <<"name", "email", "age", "city", "isActive">>

\* createUserSchema.safeParse(body): every key but isActive is required,
\* isActive defaults to true, unknown keys are stripped
createUserSchema(body) ==
    LET Required(k, issues) ==
            IF k \in DOMAIN body THEN issues ELSE <<Issue(k, "Required")>>
        issues ==
            Required("name",
                NameIssues(body["name"], "Name must be at least 2 characters",
                           "Name too long"))
            \o Required("email", EmailIssues(body["email"], "Invalid email format"))
            \o Required("age", AgeIssues(body["age"], "Age must be positive"))
            \o Required("city",
                CityIssues(body["city"], "City must be at least 2 characters"))
            \o (IF "isActive" \in DOMAIN body
                THEN IsActiveIssues(body["isActive"]) ELSE <<>>)
    IN  IF issues # <<>>
        THEN [success |-> FALSE, issues |-> issues, data |-> <<>>]
        ELSE [success |-> TRUE, issues |-> <<>>,
              data |-> [name |-> Plain(body["name"]),
                        email |-> Plain(body["email"]),
                        age |-> Plain(body["age"]),
                        city |-> Plain(body["city"]),
                        isActive |-> IF "isActive" \in DOMAIN body
                                     THEN Plain(body["isActive"]) ELSE TRUE]]

\* as UpdateKeys, without stripping the unknown keys
UpdateKeysAll(body) == DOMAIN body

\* the keys updateUserSchema keeps of a body that passed

UpdateKeys(body) == {SchemaKeys[i] : i \in 1..Len(SchemaKeys)} \cap DOMAIN body

\* updateUserSchema.safeParse(body): every key optional, checked when present,
\* unknown keys are stripped
updateUserSchema(body) ==
    LET Optional(k, issues) == IF k \in DOMAIN body THEN issues ELSE <<>>
        issues ==
            Optional("name", NameIssues(body["name"], "too_small", "too_big"))
            \o Optional("email", EmailIssues(body["email"], "invalid_string"))
            \o Optional("age", AgeIssues(body["age"], "too_small"))
            \o Optional("city", CityIssues(body["city"], "too_small"))
            \o Optional("isActive", IsActiveIssues(body["isActive"]))
    IN  IF issues # <<>>
        THEN [success |-> FALSE, issues |-> issues, data |-> <<>>]
        ELSE [success |-> TRUE, issues |-> <<>>,
              data |-> [k \in UpdateKeys(body) |-> Plain(body[k])]]

Digits == <<"0", "1", "2", "3", "4", "5", "6", "7", "8", "9">>

IsDigit(ch) == \E d \in 1..Len(Digits) : Digits[d] = ch

\* as idParamSchema, with the pattern /^\d/
idParamSchemaPrefix(seg) == seg # <<>> /\ IsDigit(seg[1])

\* idParamSchema: /^\d+$/
idParamSchema(seg) == seg # <<>> /\ \A i \in 1..Len(seg) : IsDigit(seg[i])

\* NaN, which no id equals
NaN == 0 - 1

\* the digits a string starts with
RECURSIVE DigitPrefix(_)
DigitPrefix(seg) ==
    IF seg = <<>> \/ ~IsDigit(Head(seg)) THEN <<>>
    ELSE <<Head(seg)>> \o DigitPrefix(Tail(seg))

RECURSIVE DecimalValue(_)
DecimalValue(ds) ==
    IF ds = <<>> THEN 0
    ELSE LET d == CHOOSE k \in 1..Len(Digits) : Digits[k] = ds[Len(ds)]
         IN  10 * DecimalValue(SubSeq(ds, 1, Len(ds) - 1)) + (d - 1)

\* parseInt(c.req.param("id")): the number the leading digits spell, NaN if none
parseInt(seg) ==
    IF DigitPrefix(seg) = <<>> THEN NaN ELSE DecimalValue(DigitPrefix(seg))

----------------------------------------------------------------------------
(* Storage *)

\* an array slot that was never assigned (a hole of a sparse array)
Hole == [hole |-> TRUE]

IsHole(u) == u = Hole

\* `let users: User[] = [...]`; dates are days of January 2025
SeedUsers ==
    << [id |-> 1, name |-> "Alice", email |-> "alice@example.com", age |-> 25,
        city |-> "Delhi", isActive |-> TRUE, createdAt |-> 1, updatedAt |-> 1],
       [id |-> 2, name |-> "Bob", email |-> "bob@example.com", age |-> 34,
        city |-> "Pune", isActive |-> TRUE, createdAt |-> 2, updatedAt |-> 2],
       [id |-> 3, name |-> "Charlie", email |-> "charlie@example.com", age |-> 28,
        city |-> "Delhi", isActive |-> TRUE, createdAt |-> 3, updatedAt |-> 3] >>

\* the callback (u) => u.id === id on a slot that holds an object
IdMatches(u, id) == ~IsHole(u) /\ "id" \in DOMAIN u /\ u.id = id

\* users.findIndex((u) => u.id === id); 0 when there is none
findIndex(us, id) ==
    IF \E i \in 1..Len(us) : IdMatches(us[i], id)
    THEN CHOOSE i \in 1..Len(us) :
            /\ IdMatches(us[i], id)
            /\ \A j \in 1..(i - 1) : ~IdMatches(us[j], id)
    ELSE 0

\* find and findIndex visit holes as undefined: reading .id of one is a TypeError
findThrows(us, id) ==
    \E i \in 1..Len(us) :
        /\ IsHole(us[i])
        /\ \A j \in 1..(i - 1) : ~IdMatches(us[j], id)

\* as emailExists, finding nothing
emailExistsNever(us, email) == FALSE

\* users.some((u) => u.email === email); some skips holes
emailExists(us, email) ==
    \E i \in 1..Len(us) :
        ~IsHole(us[i]) /\ "email" \in DOMAIN us[i] /\ us[i].email = email

\* users.splice(index, 1)
splice(us, index) ==
    [k \in 1..(Len(us) - 1) |-> IF k < index THEN us[k] ELSE us[k + 1]]

\* users[index] = u; writing past the end leaves holes in between
assignAt(us, index, u) ==
    [k \in 1..(IF index > Len(us) THEN index ELSE Len(us)) |->
        IF k = index THEN u ELSE IF k <= Len(us) THEN us[k] ELSE Hole]

----------------------------------------------------------------------------
(* Requests and responses *)

NoUser == <<>>
NoBody == [ok |-> TRUE, obj |-> <<>>]
MalformedJson == [ok |-> FALSE, obj |-> <<>>]
Json(obj) == [ok |-> TRUE, obj |-> obj]

Request(method, seg, json) == [method |-> method, seg |-> seg, json |-> json]

Response(status, error, user, details) ==
    [status |-> status, error |-> error, user |-> user, details |-> details]

Outcome(us, r) == [users |-> us, resp |-> r]

----------------------------------------------------------------------------
(* Handlers *)

\* app.get("/users/:id")
getUser(us, seg) ==
    IF ~idParamSchema(seg)
    THEN Outcome(us, Response(400, "Validation failed", NoUser, <<>>))
    ELSE LET id == parseInt(seg) IN
         IF findThrows(us, id)
         THEN Outcome(us, Response(500, "Internal Server Error", NoUser, <<>>))
         ELSE LET index == findIndex(us, id) IN
              IF index = 0
              THEN Outcome(us, Response(404, "User not found", NoUser, <<>>))
              ELSE Outcome(us, Response(200, "", us[index], <<>>))

\* id: users.length + 1
newUserId(us) == Len(us) + 1

\* app.post("/users")
postUser(us, json, t) ==
    IF ~json.ok
    THEN Outcome(us, Response(400, "Invalid JSON", NoUser, <<>>))
    ELSE LET validation == createUserSchema(json.obj) IN
         IF ~validation.success
         THEN Outcome(us, Response(400, "Validation failed", NoUser,
                                   validation.issues))
         ELSE IF emailExists(us, validation.data.email)
         THEN Outcome(us, Response(409, "Email already exists", NoUser, <<>>))
         ELSE LET newUser ==
                      [id |-> newUserId(us),
                       name |-> validation.data.name,
                       email |-> validation.data.email,
                       age |-> validation.data.age,
                       city |-> validation.data.city,
                       isActive |-> validation.data.isActive,
                       createdAt |-> t,
                       updatedAt |-> t]
              IN  Outcome(Append(us, newUser), Response(201, "", newUser, <<>>))

\* app.put("/users/:id") up to `await c.req.json()`
putBeforeAwait(us, seg) ==
    IF ~idParamSchema(seg)
    THEN [suspended |-> FALSE, index |-> 0,
          resp |-> Response(400, "Invalid ID", NoUser, <<>>)]
    ELSE LET id == parseInt(seg) IN
         IF findThrows(us, id)
         THEN [suspended |-> FALSE, index |-> 0,
               resp |-> Response(400, "Invalid JSON", NoUser, <<>>)]
         ELSE LET index == findIndex(us, id) IN
              IF index = 0
              THEN [suspended |-> FALSE, index |-> 0,
                    resp |-> Response(404, "User not found", NoUser, <<>>)]
              ELSE [suspended |-> TRUE, index |-> index,
                    resp |-> Response(0, "", NoUser, <<>>)]

\* as emailConflict, without the check
emailConflictNever(us, index, data) == FALSE

\* as emailConflict, without the exception for the record's own email
emailConflictOwn(us, index, data) ==
    "email" \in DOMAIN data /\ emailExists(us, data.email)

\* validatedData.email && validatedData.email !== users[index].email, and some()
emailConflict(us, index, data) ==
    /\ "email" \in DOMAIN data
    /\ ("email" \in DOMAIN us[index] => data.email # us[index].email)
    /\ emailExists(us, data.email)

\* { ...users[index], ...validatedData, updatedAt: new Date() }
mergeUser(old, data, t) == Spread(Spread(old, data), [updatedAt |-> t])

\* app.put("/users/:id") from `await c.req.json()` on, with the index found before
putAfterAwait(us, index, json, t) ==
    IF ~json.ok
    THEN Outcome(us, Response(400, "Invalid JSON", NoUser, <<>>))
    ELSE LET validation == updateUserSchema(json.obj) IN
         IF ~validation.success
         THEN Outcome(us, Response(400, "Validation failed", NoUser,
                                   validation.issues))
         ELSE LET data == validation.data
                  empty == index > Len(us) \/ IsHole(us[index])
              IN  IF "email" \in DOMAIN data /\ empty
                  THEN \* users[index].email of undefined: caught as "Invalid JSON"
                       Outcome(us, Response(400, "Invalid JSON", NoUser, <<>>))
                  ELSE IF ~empty /\ emailConflict(us, index, data)
                  THEN Outcome(us, Response(409, "Email already exists", NoUser,
                                            <<>>))
                  ELSE LET old == IF empty THEN <<>> ELSE us[index]
                           new == mergeUser(old, data, t)
                       IN  Outcome(assignAt(us, index, new),
                                   Response(200, "", new, <<>>))

\* app.delete("/users/:id")
deleteUser(us, seg) ==
    IF ~idParamSchema(seg)
    THEN Outcome(us, Response(400, "Invalid ID", NoUser, <<>>))
    ELSE LET id == parseInt(seg) IN
         IF findThrows(us, id)
         THEN Outcome(us, Response(500, "Internal Server Error", NoUser, <<>>))
         ELSE LET index == findIndex(us, id) IN
              IF index = 0
              THEN Outcome(us, Response(404, "User not found", NoUser, <<>>))
              ELSE Outcome(splice(us, index), Response(200, "", us[index], <<>>))

----------------------------------------------------------------------------
(* Inputs *)

\* the :id segments requests are sent with
IdSegments ==
    {<<"1">>, <<"2">>, <<"3">>, <<"0", "4">>, <<"a", "b", "c">>, <<"2", "x">>}

Name50 == "abcdefghijklmnopqrstuvwxyzabcdefghijklmnopqrstuvwx"
Name51 == "abcdefghijklmnopqrstuvwxyzabcdefghijklmnopqrstuvwxy"

\* a body that passes createUserSchema, every value at its lower limit
LowerBody ==
    [name |-> JStr("Di"), email |-> JStr("dave@example.com"), age |-> JInt(AgeMin),
     city |-> JStr("Go")]

\* a body that passes createUserSchema, every value at its upper limit
UpperBody ==
    [name |-> JStr(Name50), email |-> JStr("dave@example.com"),
     age |-> JInt(AgeMax), city |-> JStr("Goa"), isActive |-> JBool(FALSE)]

\* the values a key of LowerBody is overridden with
KeyValues ==
    [name |-> {JStr("D"), JStr(Name51), JNull},
     email |-> {JStr("dave.example.com"), JStr("alice@example.com")},
     age |-> {JInt(0), JInt(AgeMax + 1), JNum(5, 2), JStr("30")},
     city |-> {JStr("G")},
     isActive |-> {JBool(TRUE), JStr("yes")},
     id |-> {JInt(99)}]

Without(obj, k) == [j \in (DOMAIN obj) \ {k} |-> obj[j]]

With(obj, k, v) == Spread(obj, [j \in {k} |-> v])

\* POST bodies: LowerBody with at most one key removed or overridden, UpperBody,
\* a body with a seed user's email and an age out of range, and a broken one
CreateBodies ==
    {MalformedJson, Json(LowerBody), Json(UpperBody),
     Json(With(With(LowerBody, "email", JStr("alice@example.com")), "age", JInt(0)))}
    \cup {Json(Without(LowerBody, k)) : k \in DOMAIN LowerBody}
    \cup UNION {{Json(With(LowerBody, k, v)) : v \in KeyValues[k]} :
                    k \in DOMAIN KeyValues}

\* PUT bodies: three that pass updateUserSchema (one with unknown keys), three
\* that do not, and a broken one
UpdateBodies ==
    {MalformedJson,
     Json([city |-> JStr("Mumbai"), id |-> JInt(99), createdAt |-> JInt(0)]),
     Json([email |-> JStr("alice@example.com")]),
     Json([name |-> JStr("Di"), email |-> JStr("dave@example.com"),
           age |-> JInt(AgeMax), isActive |-> JBool(FALSE)]),
     Json([email |-> JStr("dave.example.com")]),
     Json([age |-> JInt(0)]),
     Json([name |-> JStr(Name51), city |-> JStr("Mumbai")])}

----------------------------------------------------------------------------
(* Actions: one per request handled *)

NoRequest == Request("", <<>>, NoBody)
NoResponse == Response(0, "", NoUser, <<>>)

Init ==
    /\ users = SeedUsers
    /\ now = 4
    /\ req = NoRequest
    /\ resp = NoResponse
    /\ pending = {}
    /\ writes = 0
    /\ assigned = Len(SeedUsers)

\* the step of a handler that ends with a response; a request that changes the
\* store is counted, and the clock has moved on when the next one arrives
Handled(r, out) ==
    LET wrote == out.users # users IN
    /\ req = NoRequest
    /\ wrote => writes < MaxWrites
    /\ users' = out.users
    /\ req' = r
    /\ resp' = out.resp
    /\ writes' = IF wrote THEN writes + 1 ELSE writes
    /\ now' = IF wrote THEN now + 1 ELSE now

Get(seg) ==
    /\ Handled(Request("GET", seg, NoBody), getUser(users, seg))
    /\ UNCHANGED <<pending, assigned>>

Post(json) ==
    LET out == postUser(users, json, now) IN
    /\ Handled(Request("POST", <<>>, json), out)
    /\ assigned' = IF out.resp.status = 201 /\ out.resp.user.id > assigned
                   THEN out.resp.user.id ELSE assigned
    /\ UNCHANGED pending

\* PUT when the body is already there: the handler runs without a break
Put(seg, json) ==
    LET before == putBeforeAwait(users, seg) IN
    /\ Handled(Request("PUT", seg, json),
               IF before.suspended
               THEN putAfterAwait(users, before.index, json, now)
               ELSE Outcome(users, before.resp))
    /\ UNCHANGED <<pending, assigned>>

Delete(seg) ==
    /\ Handled(Request("DELETE", seg, NoBody), deleteUser(users, seg))
    /\ UNCHANGED <<pending, assigned>>

\* the response is sent and the server waits for the next request
Reply ==
    /\ req # NoRequest
    /\ req' = NoRequest
    /\ resp' = NoResponse
    /\ UNCHANGED <<users, now, pending, writes, assigned>>

Next ==
    \/ \E seg \in IdSegments : Get(seg)
    \/ \E json \in CreateBodies : Post(json)
    \/ \E seg \in IdSegments, json \in UpdateBodies : Put(seg, json)
    \/ \E seg \in IdSegments : Delete(seg)
    \/ Reply

Spec == Init /\ [][Next]_vars

----------------------------------------------------------------------------
(* PUT with the body still on its way: the handler stops at the await, and   *)
(* other requests are handled until the body has arrived                     *)

\* PUT up to the await: an early return is a response, otherwise the handler
\* is suspended with the index it has found
PutSuspend(seg) ==
    LET before == putBeforeAwait(users, seg) IN
    IF before.suspended
    THEN /\ req = NoRequest
         /\ Cardinality(pending) < MaxSuspended
         /\ pending' = pending \cup {[seg |-> seg, index |-> before.index]}
         /\ UNCHANGED <<users, now, req, resp, writes, assigned>>
    ELSE /\ Handled(Request("PUT", seg, NoBody), Outcome(users, before.resp))
         /\ UNCHANGED <<pending, assigned>>

\* the body has arrived: the suspended handler runs to its end
PutResume(p, json) ==
    /\ p \in pending
    /\ Handled(Request("PUT", p.seg, json),
               putAfterAwait(users, p.index, json, now))
    /\ pending' = pending \ {p}
    /\ UNCHANGED assigned

NextAsync ==
    \/ \E seg \in IdSegments : Get(seg)
    \/ \E json \in CreateBodies : Post(json)
    \/ \E seg \in IdSegments : PutSuspend(seg)
    \/ \E p \in pending, json \in UpdateBodies : PutResume(p, json)
    \/ \E seg \in IdSegments : Delete(seg)
    \/ Reply

SpecAsync == Init /\ [][NextAsync]_vars

----------------------------------------------------------------------------
(* Properties.  In a step that handles a request, the unprimed variables are *)
(* the state the request found and the primed ones the state it left, with   *)
(* the request in req' and its response in resp'.                            *)

StoredIds(us) == {us[i].id : i \in 1..Len(us)}
StoredEmails(us) == {us[i].email : i \in 1..Len(us)}

\* a body that carries an email string
CarriesEmail(r) ==
    r.json.ok /\ "email" \in DOMAIN r.json.obj /\ r.json.obj["email"].type = "string"

\* /^\d+$/
AllDigits(seg) ==
    /\ seg # <<>>
    /\ \A i \in 1..Len(seg) :
          seg[i] \in {"0", "1", "2", "3", "4", "5", "6", "7", "8", "9"}

\* C1: id uniqueness: no two records of the store have the same id
C1_IdsUnique ==
    \A i, j \in 1..Len(users) : i # j => users[i].id # users[j].id

\* C2: email uniqueness: no two records of the store have the same email
C2_EmailsUnique ==
    \A i, j \in 1..Len(users) : i # j => users[i].email # users[j].email

\* a POST took the address a PUT had freed, next to the record that had it
C2_Witness ==
    /\ req.method = "POST" /\ resp.status = 201
    /\ resp.user.email = "alice@example.com"
    /\ \E i \in 1..Len(users) : users[i].id = 1 /\ users[i].name = "Di"

\* C3 as stated: every POST whose email is the email of a stored record gets
\* 409 and leaves the store as it was
C3_AnyDuplicateEmailIs409 ==
    [][(req'.method = "POST" /\ CarriesEmail(req')
        /\ req'.json.obj["email"].str \in StoredEmails(users))
       => (resp'.status = 409 /\ users' = users)]_vars

\* C3 amended: every POST whose body passes validation and whose email is the
\* email of a stored record gets 409 and leaves the store as it was; one whose
\* body fails validation gets 400 and leaves the store as it was too
C3_ValidDuplicateEmailIs409 ==
    [][(req'.method = "POST" /\ CarriesEmail(req')
        /\ req'.json.obj["email"].str \in StoredEmails(users))
       => /\ users' = users
          /\ resp'.status = IF createUserSchema(req'.json.obj).success
                            THEN 409 ELSE 400]_vars

C3_Witness ==
    /\ req.method = "POST" /\ resp.status = 409
    /\ req.json.obj["email"].str \in StoredEmails(users)

\* C4: a DELETE of an id in the store returns 200 with the removed record, and
\* a GET of that id right after it returns 404
C4_DeletedIdIsGone ==
    [][(req'.method = "DELETE" /\ AllDigits(req'.seg)
        /\ DecimalValue(req'.seg) \in StoredIds(users))
       => /\ resp'.status = 200
          /\ resp'.user \in {users[i] : i \in 1..Len(users)}
          /\ resp'.user.id = DecimalValue(req'.seg)
          /\ Len(users') = Len(users) - 1
          /\ getUser(users', req'.seg).resp.status = 404]_vars

C6_IdsNeverReused ==
    [][(req'.method = "POST" /\ resp'.status = 201)
       => resp'.user.id > assigned]_vars

\* C7: on GET, PUT and DELETE an id segment that is not all digits gets 400,
\* one that is all digits and the id of no record gets 404, whatever the body,
\* and the store stays as it was
C7_BadIdIs400AbsentIdIs404 ==
    [][(req'.method \in {"GET", "PUT", "DELETE"})
       => /\ ~AllDigits(req'.seg) => (resp'.status = 400 /\ users' = users)
          /\ (AllDigits(req'.seg) /\ DecimalValue(req'.seg) \notin StoredIds(users))
                => (resp'.status = 404 /\ users' = users)]_vars

\* a PUT to an absent id with a broken body: 404, not 400
C7_Witness ==
    /\ req.method = "PUT" /\ ~req.json.ok /\ resp.status = 404
    /\ writes > 0

\* what C8 asks of the four required fields of a body
FieldOk(b, f) ==
    /\ f \in DOMAIN b
    /\ CASE f = "name" ->
              b[f].type = "string" /\ Len(b[f].str) >= 2 /\ Len(b[f].str) <= 50
         [] f = "email" -> b[f].type = "string" /\ IsEmail(b[f].str)
         [] f = "age" ->
              /\ b[f].type = "number" /\ b[f].num % b[f].den = 0
              /\ b[f].num \div b[f].den >= 1 /\ b[f].num \div b[f].den <= 150
         [] f = "city" -> b[f].type = "string" /\ Len(b[f].str) >= 2

\* C8: a POST body with a bad name, email, age or city gets 400 with a details
\* entry for that field and leaves the store as it was; a valid body with a
\* new email gets 201 and appends one record, isActive true when omitted
C8_CreateValidation ==
    [][(req'.method = "POST" /\ req'.json.ok)
       => LET b == req'.json.obj
              required == {"name", "email", "age", "city"}
              valid == /\ \A f \in required : FieldOk(b, f)
                       /\ "isActive" \in DOMAIN b => b["isActive"].type = "boolean"
          IN  /\ \A f \in required :
                    ~FieldOk(b, f)
                    => /\ resp'.status = 400
                       /\ \E k \in 1..Len(resp'.details) : resp'.details[k].field = f
                       /\ users' = users
              /\ resp'.status = 201 => valid
              /\ (valid /\ b["email"].str \notin StoredEmails(users))
                    => /\ resp'.status = 201
                       /\ Len(users') = Len(users) + 1
                       /\ SubSeq(users', 1, Len(users)) = users
                       /\ users'[Len(users')] = resp'.user
                       /\ resp'.user.name = b["name"].str
                       /\ resp'.user.email = b["email"].str
                       /\ resp'.user.age = b["age"].num \div b["age"].den
                       /\ resp'.user.city = b["city"].str
                       /\ resp'.user.isActive =
                             IF "isActive" \in DOMAIN b THEN b["isActive"].bool
                             ELSE TRUE]_vars

\* age 0 was refused with an entry for age
C8_Witness ==
    /\ req.method = "POST" /\ resp.status = 400
    /\ "age" \in DOMAIN req.json.obj /\ req.json.obj["age"] = JInt(0)
    /\ \E k \in 1..Len(resp.details) : resp.details[k].field = "age"
    /\ writes > 0

\* C9: with PUT handlers suspended at the await, a PUT that returns 200 has
\* changed the record with the id of its path, and every record of the store
\* has a positive id
C9_PutHitsItsRecord ==
    /\ \A i \in 1..Len(users) :
          ~IsHole(users[i]) /\ "id" \in DOMAIN users[i] /\ users[i].id > 0
    /\ (req.method = "PUT" /\ resp.status = 200)
          => ("id" \in DOMAIN resp.user /\ resp.user.id = DecimalValue(req.seg))

====
